---- MODULE Spec2Model ----
(***************************************************************************)
(* Quiet-hours windows (QuietHoursService over QuietHoursRepository) and   *)
(* the deferred notification queue (NotificationService).                  *)
(*                                                                         *)
(* The services are async TypeScript: a call runs without interruption up  *)
(* to its next await, and other calls may run between an await and its     *)
(* continuation.  Every action below is one such uninterrupted segment.    *)
(*                                                                         *)
(* A time text ("22:00") is the sequence of its character codes, a Date is *)
(* the number of whole minutes since the epoch.                            *)
(***************************************************************************)
EXTENDS Integers, Sequences, FiniteSets, TLC

VARIABLES
    store,      \* rows of table quiet_hours: [id, userId, startTime, endTime]
    nextId,     \* number of primary keys generated so far
    qh,         \* the QuietHoursService calls, one per caller
    clock,      \* the reference clock (new Date())
    notificationQueue,  \* the Map: its entries << userId, array >> in insertion order
    heap,       \* the contents of the arrays the Map and the sweeps refer to
    snd,        \* the sendNotification calls, one per sender
    swp,        \* the deliverQueuedNotifications calls, one per sweeper
    sch,        \* the processAllQueuedNotifications call
    ret,        \* what the step just taken returned to a caller, if it returned
    nextMsg,    \* number of payloads submitted so far
    delivered,  \* history: the messages deliverNotification has delivered
    expired,    \* history: the messages a sweep skipped as expired
    applied     \* the last application of a function to arguments: its result

qhVars == << store, nextId, qh >>

nsVars ==
    << clock, notificationQueue, heap, snd, swp, sch, ret, nextMsg, delivered,
       expired >>

vars ==
    << store, nextId, qh, clock, notificationQueue, heap, snd, swp, sch, ret,
       nextMsg, delivered, expired, applied >>

(***************************************************************************)
(* Bounds of the model.                                                    *)
(***************************************************************************)
MaxIds == 2

MaxTick == 2

MaxMsgs == 2

(***************************************************************************)
(* Characters and time texts.                                              *)
(***************************************************************************)
Ch0 == 48

ChColon == 58

MinutesPerDay == 1440

IsDigit(c) == c \in Ch0 .. (Ch0 + 9)

\* "HH:mm" written with the two-digit hour hh and minute mm
Text(hh, mm) ==
    << Ch0 + (hh \div 10), Ch0 + (hh % 10), ChColon,
       Ch0 + (mm \div 10), Ch0 + (mm % 10) >>

\* "H:mm": an hour that is not zero-padded
ShortText(h, mm) == << Ch0 + h, ChColon, Ch0 + (mm \div 10), Ch0 + (mm % 10) >>

Users == {"u1", "u2"}

In(startTime, endTime) == [startTime |-> startTime, endTime |-> endTime]

\* the inputs callers submit: 22:00-07:00 (over midnight), 06:00-08:00 (overlaps
\* it), 07:00-08:00 (touches it), 08:00-08:00 (same start and end), and two
\* malformed ones (hour out of range, hour not zero-padded)
Inputs ==
    { In(Text(22, 0), Text(7, 0)), In(Text(6, 0), Text(8, 0)),
      In(Text(7, 0), Text(8, 0)), In(Text(8, 0), Text(8, 0)),
      In(Text(25, 0), Text(7, 0)), In(Text(22, 0), ShortText(7, 0)) }

\* what each user asks for: "u1" everything; "u2" only ever creates the
\* window 22:00-07:00 (its rows are the other user's rows for "u1")
CreateInputs(u) == IF u = "u1" THEN Inputs ELSE { In(Text(22, 0), Text(7, 0)) }

Editors == {"u1"}

NoText == << >>

NoInput == [startTime |-> NoText, endTime |-> NoText]

NoRow == [id |-> 0, userId |-> "", startTime |-> NoText, endTime |-> NoText]

(***************************************************************************)
(* QuietHoursService: pure helpers.                                        *)
(***************************************************************************)
\* /^([01]\d|2[0-3]):([0-5]\d)$/
timeRegex(t) ==
    /\ Len(t) = 5
    /\ \/ t[1] \in {Ch0, Ch0 + 1} /\ IsDigit(t[2])
       \/ t[1] = Ch0 + 2 /\ t[2] \in Ch0 .. (Ch0 + 3)
    /\ t[3] = ChColon
    /\ t[4] \in Ch0 .. (Ch0 + 5)
    /\ IsDigit(t[5])

ErrFormat == "Start and end times must be in HH:mm format."

ErrSame == "Start and end times cannot be the same."

ErrOverlap == "Quiet hour periods cannot overlap."

ErrNotFound == "Quiet hour period not found."

Ok == "ok"

ErrorName(result) ==
    IF result \in {ErrFormat, ErrSame, ErrOverlap} THEN "ValidationError"
    ELSE IF result = ErrNotFound THEN "NotFoundError"
    ELSE "none"

\* validateTimeFormat without the check of startTime against endTime
validateTimeFormatOnly(startTime, endTime) ==
    IF ~timeRegex(startTime) \/ ~timeRegex(endTime) THEN ErrFormat ELSE Ok

\* the message of the ValidationError thrown, or Ok
validateTimeFormat(startTime, endTime) ==
    IF ~timeRegex(startTime) \/ ~timeRegex(endTime) THEN ErrFormat
    ELSE IF startTime = endTime THEN ErrSame
    ELSE Ok

\* String.prototype.split(":"): the pieces between the colons
RECURSIVE SplitFrom(_, _, _)
SplitFrom(t, i, piece) ==
    IF i > Len(t) THEN << piece >>
    ELSE IF t[i] = ChColon THEN << piece >> \o SplitFrom(t, i + 1, << >>)
    ELSE SplitFrom(t, i + 1, Append(piece, t[i]))

split(t) == SplitFrom(t, 1, << >>)

NaN == -1

\* Number(piece) of a piece of decimal digits ("" is 0); NaN otherwise
RECURSIVE NumberFrom(_, _, _)
NumberFrom(piece, i, acc) ==
    IF i > Len(piece) THEN acc
    ELSE IF ~IsDigit(piece[i]) THEN NaN
    ELSE NumberFrom(piece, i + 1, acc * 10 + (piece[i] - Ch0))

Number(piece) == NumberFrom(piece, 1, 0)

\* timeToMinutes that leaves the minutes out
timeToMinutesOfHour(time) ==
    IF Number(split(time)[1]) = NaN THEN NaN ELSE Number(split(time)[1]) * 60

timeToMinutes(time) ==
    LET parts == split(time)
        h == Number(parts[1])
        m == IF Len(parts) >= 2 THEN Number(parts[2]) ELSE NaN
    IN  IF h = NaN \/ m = NaN THEN NaN ELSE h * 60 + m

\* ranges of a period: one range, or two when it runs over midnight
Ranges(s, e) ==
    IF e > s THEN << << s, e >> >> ELSE << << s, MinutesPerDay >>, << 0, e >> >>

\* periodsOverlap with <= for <
periodsOverlapInclusive(s1, e1, s2, e2) ==
    LET range1 == Ranges(s1, e1)
        range2 == Ranges(s2, e2)
    IN  \E i \in DOMAIN range1 : \E j \in DOMAIN range2 :
            range1[i][1] <= range2[j][2] /\ range2[j][1] <= range1[i][2]

\* periodsOverlap that splits only the first window at midnight
periodsOverlapFirstWraps(s1, e1, s2, e2) ==
    LET range1 == Ranges(s1, e1)
    IN  \E i \in DOMAIN range1 : range1[i][1] < e2 /\ s2 < range1[i][2]

\* periodsOverlap that compares the two windows as ranges of one day
periodsOverlapSameDay(s1, e1, s2, e2) == s1 < e2 /\ s2 < e1

periodsOverlap(s1, e1, s2, e2) ==
    LET range1 == Ranges(s1, e1)
        range2 == Ranges(s2, e2)
    IN  \E i \in DOMAIN range1 : \E j \in DOMAIN range2 :
            range1[i][1] < range2[j][2] /\ range2[j][1] < range1[i][2]

\* isTimeInPeriod that takes equal start and end for an empty period
isTimeInPeriodProper(time, start, end) ==
    IF start < end THEN time >= start /\ time < end
    ELSE start # end /\ (time >= start \/ time < end)

isTimeInPeriod(time, start, end) ==
    IF start < end THEN time >= start /\ time < end
    ELSE time >= start \/ time < end

\* hasOverlap with the loop left after the first period that is not skipped
\* as the edited one or not: only existing[0] is ever compared
hasOverlapFirstOnly(input, existing, editingId) ==
    /\ Len(existing) > 0
    /\ ~(editingId # 0 /\ existing[1].id = editingId)
    /\ periodsOverlap(timeToMinutes(input.startTime), timeToMinutes(input.endTime),
                      timeToMinutes(existing[1].startTime),
                      timeToMinutes(existing[1].endTime))

\* hasOverlap that compares with the window being edited as well
hasOverlapAll(input, existing, editingId) ==
    \E k \in DOMAIN existing :
        periodsOverlap(timeToMinutes(input.startTime), timeToMinutes(input.endTime),
                       timeToMinutes(existing[k].startTime),
                       timeToMinutes(existing[k].endTime))

\* editingId = 0 stands for the omitted argument
hasOverlap(input, existing, editingId) ==
    LET inputStart == timeToMinutes(input.startTime)
        inputEnd == timeToMinutes(input.endTime)
    IN  \E k \in DOMAIN existing :
            /\ ~(editingId # 0 /\ existing[k].id = editingId)
            /\ periodsOverlap(inputStart, inputEnd,
                              timeToMinutes(existing[k].startTime),
                              timeToMinutes(existing[k].endTime))

(***************************************************************************)
(* QuietHoursRepository.                                                   *)
(***************************************************************************)
\* order of two texts in the database's ORDER BY (code point order)
RECURSIVE TextLeqFrom(_, _, _)
TextLeqFrom(a, b, i) ==
    IF i > Len(a) THEN TRUE
    ELSE IF i > Len(b) THEN FALSE
    ELSE IF a[i] < b[i] THEN TRUE
    ELSE IF a[i] > b[i] THEN FALSE
    ELSE TextLeqFrom(a, b, i + 1)

TextLeq(a, b) == TextLeqFrom(a, b, 1)

\* the sequences without repetition that list the set rows
Orderings(rows) ==
    { f \in [1 .. Cardinality(rows) -> rows] :
        \A i, j \in 1 .. Cardinality(rows) : i # j => f[i] # f[j] }

\* every result find({where: {userId}, order: {startTime: "ASC"}}) can give:
\* rows with equal startTime come in either order
findByUserId(rows, userId) ==
    { f \in Orderings({ r \in rows : r.userId = userId }) :
        \A i, j \in DOMAIN f : i < j => TextLeq(f[i].startTime, f[j].startTime) }

findOneBy(rows, id, userId) ==
    IF \E r \in rows : r.id = id /\ r.userId = userId
    THEN CHOOSE r \in rows : r.id = id /\ r.userId = userId
    ELSE NoRow

\* repo.save(entity): insert, or update of the row with the entity's key
save(rows, entity) == { r \in rows : r.id # entity.id } \cup { entity }

\* repo.remove(entity)
remove(rows, entity) == { r \in rows : r.id # entity.id }

(***************************************************************************)
(* QuietHoursService calls.  A call's first segment runs to the result of  *)
(* repository.findByUserId (the call itself reads and writes nothing       *)
(* before it).  pc of a call afterwards:                                   *)
(*   "findOne"  in repository.update/delete, awaiting repo.findOneBy       *)
(*   "save"     awaiting repo.save                                         *)
(*   "remove"   awaiting repo.remove                                       *)
(*   "done"     returned (result = Ok) or threw (result = the message)     *)
(***************************************************************************)
Callers == {"a", "b"}

Ids == 1 .. MaxIds

\* ids callers pass: an id names no row before it is generated and after its
\* row is deleted
CallIds == Ids

IdleCall ==
    [pc |-> "idle", op |-> "", userId |-> "", id |-> 0, input |-> NoInput,
     entity |-> NoRow, result |-> ""]

InFlight(c) == qh[c].pc \notin {"idle", "done"}

\* caller c may start a call; callers are interchangeable, so "b" is the one
\* that calls while "a" has a call in flight
Returned(c) == ~InFlight(c) /\ (c = "b" => InFlight("a"))

InFlightCreates == Cardinality({ c \in Callers : qh[c].pc = "save" /\ qh[c].op = "create" })

\* the call has returned or thrown: its locals are gone, its caller still
\* holds the userId and the id it passed
Finish(call, result) ==
    [IdleCall EXCEPT !.pc = "done", !.op = call.op, !.userId = call.userId,
                     !.id = call.id, !.result = result]

\* createQuietHour up to repository.create's await of repo.save
createQuietHour(call, existing) ==
    LET valid == validateTimeFormat(call.input.startTime, call.input.endTime)
    IN  IF valid # Ok THEN Finish(call, valid)
        ELSE IF hasOverlap(call.input, existing, 0) THEN Finish(call, ErrOverlap)
        ELSE [call EXCEPT !.pc = "save",
                          !.entity = [id |-> 0, userId |-> call.userId,
                                      startTime |-> call.input.startTime,
                                      endTime |-> call.input.endTime]]

CreateCall(c, userId, input) ==
    /\ Returned(c)
    /\ nextId + InFlightCreates < MaxIds
    /\ \E existing \in findByUserId(store, userId) :
         qh' = [qh EXCEPT ![c] =
                  createQuietHour([IdleCall EXCEPT !.op = "create", !.userId = userId,
                                                   !.input = input], existing)]
    /\ UNCHANGED << store, nextId >>
    /\ UNCHANGED << nsVars, applied >>

\* repo.save of a new entity: the key is generated
CreateSave(c) ==
    /\ qh[c].pc = "save" /\ qh[c].op = "create"
    /\ store' = save(store, [qh[c].entity EXCEPT !.id = nextId + 1])
    /\ qh' = [qh EXCEPT ![c] = Finish(@, Ok)]
    /\ nextId' = nextId + 1
    /\ UNCHANGED << nsVars, applied >>

\* updateQuietHour without the overlap check
updateQuietHourUnchecked(call, existing) ==
    LET valid == validateTimeFormat(call.input.startTime, call.input.endTime)
    IN  IF valid # Ok THEN Finish(call, valid)
        ELSE IF ~\E k \in DOMAIN existing : existing[k].id = call.id
        THEN Finish(call, ErrNotFound)
        ELSE [call EXCEPT !.pc = "findOne"]

\* updateQuietHour up to repository.update's await of repo.findOneBy
updateQuietHour(call, existing) ==
    LET valid == validateTimeFormat(call.input.startTime, call.input.endTime)
    IN  IF valid # Ok THEN Finish(call, valid)
        ELSE IF ~\E k \in DOMAIN existing : existing[k].id = call.id
        THEN Finish(call, ErrNotFound)
        ELSE IF hasOverlap(call.input, existing, call.id) THEN Finish(call, ErrOverlap)
        ELSE [call EXCEPT !.pc = "findOne"]

UpdateCall(c, userId, id, input) ==
    /\ Returned(c)
    /\ \E existing \in findByUserId(store, userId) :
         qh' = [qh EXCEPT ![c] =
                  updateQuietHour([IdleCall EXCEPT !.op = "update", !.userId = userId,
                                                   !.id = id, !.input = input], existing)]
    /\ UNCHANGED << store, nextId >>
    /\ UNCHANGED << nsVars, applied >>

\* repository.update from the result of findOneBy to its await of repo.save
repositoryUpdate(call, entity) ==
    IF entity = NoRow THEN Finish(call, ErrNotFound)
    ELSE [call EXCEPT !.pc = "save",
                      !.entity = [entity EXCEPT !.startTime = call.input.startTime,
                                                !.endTime = call.input.endTime]]

UpdateFindOne(c) ==
    /\ qh[c].pc = "findOne" /\ qh[c].op = "update"
    /\ qh' = [qh EXCEPT ![c] =
                repositoryUpdate(@, findOneBy(store, qh[c].id, qh[c].userId))]
    /\ UNCHANGED << store, nextId >>
    /\ UNCHANGED << nsVars, applied >>

UpdateSave(c) ==
    /\ qh[c].pc = "save" /\ qh[c].op = "update"
    /\ store' = save(store, qh[c].entity)
    /\ qh' = [qh EXCEPT ![c] = Finish(@, Ok)]
    /\ UNCHANGED nextId
    /\ UNCHANGED << nsVars, applied >>

\* deleteQuietHour without the check of the id against the user's periods
deleteQuietHourAnyId(call, existing) == [call EXCEPT !.pc = "findOne"]

\* deleteQuietHour up to repository.delete's await of repo.findOneBy
deleteQuietHour(call, existing) ==
    IF ~\E k \in DOMAIN existing : existing[k].id = call.id
    THEN Finish(call, ErrNotFound)
    ELSE [call EXCEPT !.pc = "findOne"]

DeleteCall(c, userId, id) ==
    /\ Returned(c)
    /\ \E existing \in findByUserId(store, userId) :
         qh' = [qh EXCEPT ![c] =
                  deleteQuietHour([IdleCall EXCEPT !.op = "delete", !.userId = userId,
                                                   !.id = id], existing)]
    /\ UNCHANGED << store, nextId >>
    /\ UNCHANGED << nsVars, applied >>

\* repository.delete from the result of findOneBy to its await of repo.remove
repositoryDelete(call, entity) ==
    IF entity = NoRow THEN Finish(call, ErrNotFound)
    ELSE [call EXCEPT !.pc = "remove", !.entity = entity]

DeleteFindOne(c) ==
    /\ qh[c].pc = "findOne" /\ qh[c].op = "delete"
    /\ qh' = [qh EXCEPT ![c] =
                repositoryDelete(@, findOneBy(store, qh[c].id, qh[c].userId))]
    /\ UNCHANGED << store, nextId >>
    /\ UNCHANGED << nsVars, applied >>

DeleteRemove(c) ==
    /\ qh[c].pc = "remove" /\ qh[c].op = "delete"
    /\ store' = remove(store, qh[c].entity)
    /\ qh' = [qh EXCEPT ![c] = Finish(@, Ok)]
    /\ UNCHANGED nextId
    /\ UNCHANGED << nsVars, applied >>

QHStep(c) ==
    \/ \E u \in Users : \E i \in CreateInputs(u) : CreateCall(c, u, i)
    \/ CreateSave(c)
    \/ \E u \in Editors, id \in CallIds, i \in Inputs : UpdateCall(c, u, id, i)
    \/ UpdateFindOne(c)
    \/ UpdateSave(c)
    \/ \E u \in Editors, id \in CallIds : DeleteCall(c, u, id)
    \/ DeleteFindOne(c)
    \/ DeleteRemove(c)

(***************************************************************************)
(* Dates.                                                                  *)
(***************************************************************************)
\* the clock starts on day 0 at 23:00 UTC and moves in steps of 4 h 30 min
ClockStart == 23 * 60

ClockStep == 4 * 60 + 30

Instant(k) == ClockStart + k * ClockStep

Dates == { Instant(k) : k \in 0 .. MaxTick }

\* an absent relevanceExpiresAt
NoDate == 0

getUTCHours(date) == (date \div 60) % 24

getUTCMinutes(date) == date % 60

\* isWithinQuietHours with the loop left after the first period
isWithinQuietHoursFirst(quietHours, date) ==
    IF Len(quietHours) = 0 THEN FALSE
    ELSE isTimeInPeriod(getUTCHours(date) * 60 + getUTCMinutes(date),
                        timeToMinutes(quietHours[1].startTime),
                        timeToMinutes(quietHours[1].endTime))

\* isWithinQuietHours, from the result of findByUserId on
isWithinQuietHours(quietHours, date) ==
    IF Len(quietHours) = 0 THEN FALSE
    ELSE LET minutes == getUTCHours(date) * 60 + getUTCMinutes(date)
         IN  \E k \in DOMAIN quietHours :
                 isTimeInPeriod(minutes, timeToMinutes(quietHours[k].startTime),
                                timeToMinutes(quietHours[k].endTime))

(***************************************************************************)
(* NotificationService: payloads, the Map notificationQueue, its arrays.   *)
(***************************************************************************)
Msgs == 1 .. MaxMsgs

\* the payloads callers submit at instant now: generated now, with no deadline
\* or with the deadline Instant(0)
Payloads(now) ==
    [userId : Users, message : Msgs, timestamp : {now},
     relevanceExpiresAt : {NoDate, Instant(0)}]

NoPayload == [userId |-> "", message |-> 0, timestamp |-> 0, relevanceExpiresAt |-> NoDate]

\* {...payload, queuedAt: new Date()}
Queued(payload, now) ==
    [userId |-> payload.userId, message |-> payload.message,
     timestamp |-> payload.timestamp,
     relevanceExpiresAt |-> payload.relevanceExpiresAt, queuedAt |-> now]

Senders == {"s1"}

OnDemand == {"d1"}

Sweepers == OnDemand \cup {"sched"}

NoArray == 0

ArrIds == 1 .. (Cardinality(Users) + Cardinality(Sweepers) + 1)

\* position of the entry of key u in Map m, 0 when there is none
MapIndex(m, u) ==
    IF \E i \in DOMAIN m : m[i][1] = u
    THEN CHOOSE i \in DOMAIN m : m[i][1] = u
    ELSE 0

MapGet(m, u) == IF MapIndex(m, u) = 0 THEN NoArray ELSE m[MapIndex(m, u)][2]

\* Map.prototype.set: a present key keeps its place, a new key goes last
MapSet(m, u, a) ==
    IF MapIndex(m, u) = 0 THEN Append(m, << u, a >>)
    ELSE [m EXCEPT ![MapIndex(m, u)] = << u, a >>]

\* a delete that leaves the Map as it is
MapDeleteNothing(m, u) == m

\* a Map emptied by the delete of one key
MapClear(m, u) == << >>

MapDelete(m, u) ==
    IF MapIndex(m, u) = 0 THEN m
    ELSE SubSeq(m, 1, MapIndex(m, u) - 1) \o SubSeq(m, MapIndex(m, u) + 1, Len(m))

\* the arrays some reference leads to
Referenced(m, sweeps) ==
    { m[i][2] : i \in DOMAIN m }
        \cup { sweeps[w].userQueue : w \in { x \in Sweepers : sweeps[x].pc = "delivering" } }

\* a new array []
FreshArray(m, sweeps) ==
    CHOOSE a \in ArrIds \ Referenced(m, sweeps) :
        \A b \in ArrIds \ Referenced(m, sweeps) : a <= b

SweeperOrder == << "d1", "sched" >>

\* the arrays some reference leads to, each once: those of the Map's entries in
\* the Map's order, then those only sweeps hold
RECURSIVE Reachable(_, _, _, _)
Reachable(m, sweeps, k, acc) ==
    IF k > Len(m) + Len(SweeperOrder) THEN acc
    ELSE LET a == IF k <= Len(m) THEN m[k][2]
                  ELSE IF sweeps[SweeperOrder[k - Len(m)]].pc = "delivering"
                  THEN sweeps[SweeperOrder[k - Len(m)]].userQueue
                  ELSE NoArray
         IN  IF a = NoArray \/ \E i \in DOMAIN acc : acc[i] = a
             THEN Reachable(m, sweeps, k + 1, acc)
             ELSE Reachable(m, sweeps, k + 1, Append(acc, a))

\* an array has no name of its own: arrays are numbered in the order Reachable
\* finds them, and arrays nothing refers to any more are gone
Collect(h, m, sweeps) ==
    LET order == Reachable(m, sweeps, 1, << >>)
        name(a) == IF a = NoArray THEN NoArray
                   ELSE CHOOSE i \in DOMAIN order : order[i] = a
    IN  [map |-> [i \in DOMAIN m |-> << m[i][1], name(m[i][2]) >>],
         heap |-> [a \in ArrIds |-> IF a \in DOMAIN order THEN h[order[a]] ELSE << >>],
         sweeps |-> [w \in Sweepers |->
                       IF sweeps[w].pc = "delivering"
                       THEN [sweeps[w] EXCEPT !.userQueue = name(@)]
                       ELSE sweeps[w]]]

\* what notificationQueue.get(u) || [] holds
QueueOf(u) ==
    IF MapGet(notificationQueue, u) = NoArray THEN << >>
    ELSE heap[MapGet(notificationQueue, u)]

\* queueNotification with unshift for push
queueNotificationFront(m, h, sweeps, payload, now) ==
    LET ref == MapGet(m, payload.userId)
        userQueue == IF ref = NoArray THEN FreshArray(m, sweeps) ELSE ref
    IN  [map |-> MapSet(m, payload.userId, userQueue),
         heap |-> [h EXCEPT ![userQueue] = << Queued(payload, now) >> \o @]]

\* queueNotification: the Map and the arrays afterwards
queueNotification(m, h, sweeps, payload, now) ==
    LET ref == MapGet(m, payload.userId)
        userQueue == IF ref = NoArray THEN FreshArray(m, sweeps) ELSE ref
    IN  [map |-> MapSet(m, payload.userId, userQueue),
         heap |-> [h EXCEPT ![userQueue] = Append(@, Queued(payload, now))]]

(***************************************************************************)
(* sendNotification.  pc: "checked" (isWithinQuietHours has resolved),     *)
(* "delivering" (awaiting deliverNotification), "done".                    *)
(***************************************************************************)
IdleSend == [pc |-> "idle", payload |-> NoPayload, isQuiet |-> FALSE]

\* what the step just taken returned to the caller of by: the status, from
\* deliverQueuedNotifications(userId) the count, from getQueuedNotifications
\* the items
Return(by, userId, status, count) ==
    [by |-> by, userId |-> userId, status |-> status, count |-> count, kept |-> 0,
     after |-> -1, items |-> << >>]

NoReturn == Return("", "", "", 0)

Resolved == "resolved"

RetQueued == "false"

RetDelivered == "true"

Threw == "threw"

\* sendNotification up to the result of isWithinQuietHours
SendCall(s, payload) ==
    /\ snd[s].pc = "idle"
    /\ nextMsg < MaxMsgs
    /\ payload.message = nextMsg + 1
    /\ nextMsg' = nextMsg + 1
    /\ \E quietHours \in findByUserId(store, payload.userId) :
         snd' = [snd EXCEPT ![s] =
                   [IdleSend EXCEPT !.pc = "checked", !.payload = payload,
                                    !.isQuiet = isWithinQuietHours(quietHours,
                                                                   payload.timestamp)]]
    /\ ret' = NoReturn /\ UNCHANGED << clock, notificationQueue, heap, swp, sch, delivered, expired >>
    /\ UNCHANGED << qhVars, applied >>

\* if (isQuiet) { queueNotification; return false }
SendQueue(s) ==
    /\ snd[s].pc = "checked" /\ snd[s].isQuiet
    /\ \E q \in { queueNotification(notificationQueue, heap, swp, snd[s].payload, clock) } :
       \E c \in { Collect(q.heap, q.map, swp) } :
           /\ notificationQueue' = c.map
           /\ heap' = c.heap
           /\ swp' = c.sweeps
    /\ snd' = [snd EXCEPT ![s] = IdleSend]
    /\ ret' = Return(s, snd[s].payload.userId, RetQueued, 0)
    /\ UNCHANGED << clock, sch, nextMsg, delivered, expired >>
    /\ UNCHANGED << qhVars, applied >>

\* else { await deliverNotification(payload) ...
SendDeliver(s) ==
    /\ snd[s].pc = "checked" /\ ~snd[s].isQuiet
    /\ snd' = [snd EXCEPT ![s].pc = "delivering"]
    /\ ret' = NoReturn /\ UNCHANGED << clock, notificationQueue, heap, swp, sch, nextMsg,
                    delivered, expired >>
    /\ UNCHANGED << qhVars, applied >>

\* sendNotification with a catch block that queues the payload and returns
\* false
SendDeliveredOrQueued(s, success) ==
    /\ snd[s].pc = "delivering"
    /\ snd' = [snd EXCEPT ![s] = IdleSend]
    /\ IF success
       THEN /\ ret' = Return(s, snd[s].payload.userId, RetDelivered, 0)
            /\ delivered' = delivered \cup {snd[s].payload.message}
            /\ UNCHANGED << notificationQueue, heap, swp >>
       ELSE \E q \in { queueNotification(notificationQueue, heap, swp, snd[s].payload,
                                          clock) } :
            \E c \in { Collect(q.heap, q.map, swp) } :
                /\ notificationQueue' = c.map
                /\ heap' = c.heap
                /\ swp' = c.sweeps
                /\ ret' = Return(s, snd[s].payload.userId, RetQueued, 0)
                /\ UNCHANGED delivered
    /\ UNCHANGED << clock, sch, nextMsg, expired >>
    /\ UNCHANGED << qhVars, applied >>

\* ... return true }, or the catch block rethrows the transport's failure
SendDelivered(s, success) ==
    /\ snd[s].pc = "delivering"
    /\ snd' = [snd EXCEPT ![s] = IdleSend]
    /\ ret' = Return(s, snd[s].payload.userId,
                     IF success THEN RetDelivered ELSE Threw, 0)
    /\ delivered' = IF success THEN delivered \cup {snd[s].payload.message} ELSE delivered
    /\ UNCHANGED << clock, notificationQueue, heap, swp, sch, nextMsg, expired >>
    /\ UNCHANGED << qhVars, applied >>

(***************************************************************************)
(* deliverQueuedNotifications.  pc: "delivering" (awaiting                  *)
(* deliverNotification of userQueue[idx]), "done".                         *)
(***************************************************************************)
\* after: the number of items kept by the sweep of the same subject that
\* returned in the step before this one was called, -1 when there was none;
\* size: the length of userQueue when the sweep was called
IdleSweep ==
    [pc |-> "idle", userId |-> "", now |-> 0, userQueue |-> NoArray, idx |-> 0,
     remainingQueue |-> << >>, deliveredCount |-> 0, after |-> -1, size |-> 0]

\* the return of a sweep: with it, the number of items the sweep has kept
\* for the subject's queue, and what the sweep followed
SweepReturn(w, sw) ==
    [Return(w, sw.userId, Resolved, sw.deliveredCount) EXCEPT
        !.kept = Len(sw.remainingQueue), !.after = sw.after]

\* the expiry test with >= for >
ExpiredAtDeadline(notification, now) ==
    notification.relevanceExpiresAt # NoDate /\ now >= notification.relevanceExpiresAt

Expired(notification, now) ==
    notification.relevanceExpiresAt # NoDate /\ now > notification.relevanceExpiresAt

\* the for-of loop from position i on: the first item that is not skipped as
\* expired, Len(q) + 1 when the iterator is exhausted
RECURSIVE NextRelevant(_, _, _)
NextRelevant(q, i, now) ==
    IF i > Len(q) THEN Len(q) + 1
    ELSE IF Expired(q[i], now) THEN NextRelevant(q, i + 1, now)
    ELSE i

\* the loop of sweep sw from position from up to its next await, or to the
\* return: the sweep, the Map and the arrays afterwards, the messages skipped
\* as expired, and the position of the Map entry deleted (0: none)
SweepSegment(w, sw, from) ==
    LET q == IF sw.userQueue = NoArray THEN << >> ELSE heap[sw.userQueue]
        j == NextRelevant(q, from, sw.now)
        skipped == { q[k].message : k \in from .. (j - 1) }
        others == [swp EXCEPT ![w] = IdleSweep]
    IN  IF j <= Len(q)
        THEN [sweep |-> [sw EXCEPT !.pc = "delivering", !.idx = j],
              map |-> notificationQueue, heap |-> heap, skipped |-> skipped,
              deleted |-> 0, ret |-> NoReturn]
        ELSE IF Len(sw.remainingQueue) > 0
        THEN [sweep |-> IdleSweep,
              map |-> MapSet(notificationQueue, sw.userId,
                             FreshArray(notificationQueue, others)),
              heap |-> [heap EXCEPT ![FreshArray(notificationQueue, others)] =
                                      sw.remainingQueue],
              skipped |-> skipped, deleted |-> 0,
              ret |-> SweepReturn(w, sw)]
        ELSE [sweep |-> IdleSweep, map |-> MapDelete(notificationQueue, sw.userId),
              heap |-> heap, skipped |-> skipped,
              deleted |-> MapIndex(notificationQueue, sw.userId),
              ret |-> SweepReturn(w, sw)]

\* what a call for userId made now follows: the number of items kept by a
\* sweep of userId that returned in the step before, -1 when there was none
Follows(userId) ==
    IF ret.status = Resolved /\ ret.userId = userId THEN ret.kept ELSE -1

\* deliverQueuedNotifications(userId) up to its first await
deliverQueuedNotifications(w, userId) ==
    SweepSegment(w, [IdleSweep EXCEPT !.userId = userId, !.now = clock,
                                      !.userQueue = MapGet(notificationQueue, userId),
                                      !.after = Follows(userId),
                                      !.size = Len(QueueOf(userId))],
                 1)

\* the iterator of notificationQueue.keys() after the entry at position p went
IteratorAfterDelete(s, p) ==
    IF p # 0 /\ s.pc \in {"read", "checked", "sweeping"} /\ p <= s.idx
    THEN [s EXCEPT !.idx = @ - 1]
    ELSE s

\* the effects of a sweep's segment r on everything but sch
Apply(w, r) ==
    /\ \E c \in { Collect(r.heap, r.map, [swp EXCEPT ![w] = r.sweep]) } :
           /\ swp' = c.sweeps
           /\ notificationQueue' = c.map
           /\ heap' = c.heap
    /\ expired' = expired \cup r.skipped
    /\ ret' = r.ret

\* an on-demand call of deliverQueuedNotifications
SweepCall(w, userId) ==
    /\ swp[w].pc = "idle"
    /\ \E r \in { deliverQueuedNotifications(w, userId) } :
           /\ Apply(w, r)
           /\ sch' = IteratorAfterDelete(sch, r.deleted)
    /\ UNCHANGED << clock, snd, nextMsg, delivered >>
    /\ UNCHANGED << qhVars, applied >>

\* a catch block that drops the notification
afterDeliveryDrop(sw, notification, success) ==
    IF success THEN [sw EXCEPT !.deliveredCount = @ + 1] ELSE sw

\* a catch block with unshift for push
afterDeliveryFront(sw, notification, success) ==
    IF success THEN [sw EXCEPT !.deliveredCount = @ + 1]
    ELSE [sw EXCEPT !.remainingQueue = << notification >> \o @]

\* try { await deliverNotification; deliveredCount++ }
\* catch { remainingQueue.push(notification) }
afterDelivery(sw, notification, success) ==
    IF success THEN [sw EXCEPT !.deliveredCount = @ + 1]
    ELSE [sw EXCEPT !.remainingQueue = Append(@, notification)]

\* deliverNotification has resolved or rejected; the loop goes on
SweepDelivered(w, success) ==
    /\ swp[w].pc = "delivering"
    /\ \E notification \in { heap[swp[w].userQueue][swp[w].idx] } :
       \E r \in { SweepSegment(w, afterDelivery(swp[w], notification, success),
                               swp[w].idx + 1) } :
           /\ Apply(w, r)
           /\ sch' = IteratorAfterDelete(sch, r.deleted)
           /\ delivered' = IF success THEN delivered \cup {notification.message}
                           ELSE delivered
    /\ UNCHANGED << clock, snd, nextMsg >>
    /\ UNCHANGED << qhVars, applied >>

(***************************************************************************)
(* processAllQueuedNotifications.  idx is the number of Map entries the    *)
(* iterator has passed.  pc: "read" (awaiting isWithinQuietHours),         *)
(* "checked" (it has resolved), "sweeping" (awaiting                       *)
(* deliverQueuedNotifications), "done".                                    *)
(***************************************************************************)
\* start: the instant at which the pass that runs was called
IdleSched ==
    [pc |-> "idle", idx |-> 0, userId |-> "", now |-> 0, isQuiet |-> FALSE, start |-> 0]

\* the for-of loop's next step: the next key and new Date(), or the end
Iterate(s, m, now) ==
    IF s.idx < Len(m)
    THEN [IdleSched EXCEPT !.pc = "read", !.idx = s.idx + 1,
                           !.userId = m[s.idx + 1][1], !.now = now,
                           !.start = IF s.pc = "idle" THEN now ELSE s.start]
    ELSE IdleSched

SchedCall ==
    /\ sch.pc = "idle"
    /\ sch' = Iterate(IdleSched, notificationQueue, clock)
    /\ ret' = NoReturn /\ UNCHANGED << clock, notificationQueue, heap, snd, swp, nextMsg,
                    delivered, expired >>
    /\ UNCHANGED << qhVars, applied >>

SchedRead ==
    /\ sch.pc = "read"
    /\ \E quietHours \in findByUserId(store, sch.userId) :
         sch' = [sch EXCEPT !.pc = "checked",
                            !.isQuiet = isWithinQuietHours(quietHours, sch.now)]
    /\ ret' = NoReturn /\ UNCHANGED << clock, notificationQueue, heap, snd, swp, nextMsg,
                    delivered, expired >>
    /\ UNCHANGED << qhVars, applied >>

\* if (!isQuiet) { await this.deliverQueuedNotifications(userId) }
SchedSweep ==
    /\ sch.pc = "checked" /\ ~sch.isQuiet
    /\ \E r \in { deliverQueuedNotifications("sched", sch.userId) } :
           /\ Apply("sched", r)
           /\ sch' = IteratorAfterDelete([sch EXCEPT !.pc = "sweeping"], r.deleted)
    /\ UNCHANGED << clock, snd, nextMsg, delivered >>
    /\ UNCHANGED << qhVars, applied >>

\* the subject is quiet: on to the next key
SchedSkip ==
    /\ sch.pc = "checked" /\ sch.isQuiet
    /\ sch' = Iterate(sch, notificationQueue, clock)
    /\ ret' = NoReturn /\ UNCHANGED << clock, notificationQueue, heap, snd, swp, nextMsg,
                    delivered, expired >>
    /\ UNCHANGED << qhVars, applied >>

\* deliverQueuedNotifications has returned: on to the next key
SchedResume ==
    /\ sch.pc = "sweeping" /\ swp["sched"].pc = "idle"
    /\ sch' = Iterate(sch, notificationQueue, clock)
    /\ ret' = NoReturn /\ UNCHANGED << clock, notificationQueue, heap, snd, swp, nextMsg,
                    delivered, expired >>
    /\ UNCHANGED << qhVars, applied >>

\* getQueuedNotifications: return notificationQueue.get(userId) || []
Readers == {"g1"}

RetArray == "array"

\* a getQueuedNotifications that takes the items out of the Map
GetQueuedNotificationsTakes(g, userId) ==
    /\ ret' = [Return(g, userId, RetArray, Len(QueueOf(userId))) EXCEPT
                   !.items = QueueOf(userId)]
    /\ \E c \in { Collect(heap, MapDelete(notificationQueue, userId), swp) } :
           /\ notificationQueue' = c.map
           /\ heap' = c.heap
           /\ swp' = c.sweeps
    /\ UNCHANGED << clock, snd, sch, nextMsg, delivered, expired >>
    /\ UNCHANGED << qhVars, applied >>

GetQueuedNotifications(g, userId) ==
    /\ ret' = [Return(g, userId, RetArray, Len(QueueOf(userId))) EXCEPT
                   !.items = QueueOf(userId)]
    /\ UNCHANGED << clock, notificationQueue, heap, snd, swp, sch, nextMsg, delivered,
                    expired >>
    /\ UNCHANGED << qhVars, applied >>

Tick ==
    /\ clock < Instant(MaxTick)
    /\ clock' = clock + ClockStep
    /\ ret' = NoReturn /\ UNCHANGED << notificationQueue, heap, snd, swp, sch, nextMsg,
                    delivered, expired >>
    /\ UNCHANGED << qhVars, applied >>

(***************************************************************************)
(* Functions applied to arguments.                                         *)
(***************************************************************************)
Application(fn, args, result) == [fn |-> fn, args |-> args, result |-> result]

NoCall == Application("", << >>, FALSE)

\* the stored windows the functions are applied to
Windows ==
    << In(Text(22, 0), Text(7, 0)), In(Text(6, 0), Text(8, 0)),
       In(Text(8, 0), Text(12, 0)), In(Text(12, 0), Text(13, 30)) >>

Row(id, userId, input) ==
    [id |-> id, userId |-> userId, startTime |-> input.startTime,
     endTime |-> input.endTime]

\* tables: some of the windows for "u1", none or one for "u2"
Stores ==
    { { Row(i, "u1", Windows[i]) : i \in S } \cup other :
        S \in SUBSET DOMAIN Windows,
        other \in { {}, { Row(Len(Windows) + 1, "u2", Windows[3]) } } }

\* the instants the functions are applied to
Instants ==
    { d * MinutesPerDay + m :
        d \in 0 .. 1,
        m \in { 0, 6 * 60 + 59, 7 * 60, 8 * 60, 11 * 60 + 59, 12 * 60, 13 * 60 + 29,
                 13 * 60 + 30, 21 * 60 + 59, 22 * 60, 23 * 60 + 59 } }

\* isWithinQuietHours(userId, date), with the rows of userId in whatever
\* order the repository gives them; a behaviour applies one function once
IsWithinQuietHours(userId, date) ==
    /\ applied.fn = NoCall.fn
    /\ \E quietHours \in Orderings({ r \in store : r.userId = userId }) :
         applied' = Application("isWithinQuietHours", << userId, date >>,
                         isWithinQuietHours(quietHours, date))
    /\ UNCHANGED << qhVars, nsVars >>

\* the minutes of the day periodsOverlap is applied to
Minutes == { 0, 60, 6 * 60, 7 * 60, 8 * 60, 22 * 60, 23 * 60 }

PeriodsOverlap(s1, e1, s2, e2) ==
    /\ applied.fn = NoCall.fn
    /\ store = {}
    /\ applied' = Application("periodsOverlap", << s1, e1, s2, e2 >>,
                              periodsOverlap(s1, e1, s2, e2))
    /\ UNCHANGED << qhVars, nsVars >>

(***************************************************************************)
(* QuietHoursSettings.tsx: the validation the form runs before it submits.  *)
(***************************************************************************)
\* the validator's timeRegex, /^([01]\d|2[0-3]):([0-5]\d)$/
timeRegexOfForm(t) ==
    /\ Len(t) = 5
    /\ IF t[1] = Ch0 + 2 THEN t[2] \in Ch0 .. (Ch0 + 3)
       ELSE t[1] \in {Ch0, Ch0 + 1} /\ IsDigit(t[2])
    /\ t[3] = ChColon
    /\ t[4] \in Ch0 .. (Ch0 + 5) /\ IsDigit(t[5])

\* const [h, m] = t.split(":").map(Number); return h * 60 + m
toMinutes(t) ==
    LET parts == [k \in DOMAIN split(t) |-> Number(split(t)[k])]
    IN  IF Len(parts) < 2 \/ parts[1] = NaN \/ parts[2] = NaN THEN NaN
        ELSE parts[1] * 60 + parts[2]

\* the validator's own periodsOverlap
periodsOverlapOfForm(s1, e1, s2, e2) ==
    LET range1 == IF e1 > s1 THEN { << s1, e1 >> }
                  ELSE { << s1, MinutesPerDay >>, << 0, e1 >> }
        range2 == IF e2 > s2 THEN { << s2, e2 >> }
                  ELSE { << s2, MinutesPerDay >>, << 0, e2 >> }
    IN  \E a \in range1, b \in range2 : a[1] < b[2] /\ b[1] < a[2]

\* the validator returns null
Null == "null"

\* validateQuietHourInput without the skip of the period being edited
validateQuietHourInputNoSkip(input, existing, editingId) ==
    IF ~timeRegexOfForm(input.startTime) \/ ~timeRegexOfForm(input.endTime)
    THEN ErrFormat
    ELSE IF input.startTime = input.endTime THEN ErrSame
    ELSE IF \E k \in DOMAIN existing :
                periodsOverlapOfForm(toMinutes(input.startTime), toMinutes(input.endTime),
                                     toMinutes(existing[k].startTime),
                                     toMinutes(existing[k].endTime))
    THEN ErrOverlap
    ELSE Null

\* the message returned, or Null; editingId = 0 stands for the omitted argument
validateQuietHourInput(input, existing, editingId) ==
    IF ~timeRegexOfForm(input.startTime) \/ ~timeRegexOfForm(input.endTime)
    THEN "Start and end times must be in HH:mm format."
    ELSE IF input.startTime = input.endTime THEN "Start and end times cannot be the same."
    ELSE IF \E k \in DOMAIN existing :
                /\ ~(editingId # 0 /\ existing[k].id = editingId)
                /\ periodsOverlapOfForm(toMinutes(input.startTime),
                                        toMinutes(input.endTime),
                                        toMinutes(existing[k].startTime),
                                        toMinutes(existing[k].endTime))
    THEN "Quiet hour periods cannot overlap."
    ELSE Null

\* the inputs the form is given: the callers' inputs and the stored windows
FormInputs == Inputs \cup { Windows[k] : k \in DOMAIN Windows }

\* the form validates an input against the subject's periods as it has them,
\* with or without the id of the period being edited
ValidateQuietHourInput(userId, input, editingId) ==
    /\ applied.fn = NoCall.fn
    /\ \E existing \in Orderings({ r \in store : r.userId = userId }) :
         applied' = Application("validateQuietHourInput", << input, existing, editingId >>,
                                validateQuietHourInput(input, existing, editingId))
    /\ UNCHANGED << qhVars, nsVars >>

\* the texts timeToMinutes is applied to: every HH:mm of the day, and two
\* that validateTimeFormat refuses
TimeTexts ==
    { Text(hh, mm) : hh \in 0 .. 23, mm \in 0 .. 59 } \cup { Text(25, 0), ShortText(7, 0) }

\* the texts they are compared with
OtherTexts ==
    { Text(0, 0), Text(0, 59), Text(1, 0), Text(7, 0), Text(9, 59), Text(10, 0),
      Text(19, 59), Text(20, 0), Text(22, 0), Text(23, 59) }

\* timeToMinutes of the start and of the end of an input
TimeToMinutes(startTime, endTime) ==
    /\ applied.fn = NoCall.fn
    /\ store = {}
    /\ applied' = Application("timeToMinutes", << startTime, endTime >>,
                              << timeToMinutes(startTime), timeToMinutes(endTime) >>)
    /\ UNCHANGED << qhVars, nsVars >>

\* the instants of the day isTimeInPeriod is asked about
Times == Minutes \cup { 1, 6 * 60 + 59, 21 * 60 + 59, 23 * 60 + 59 }

IsTimeInPeriod(time, start, end) ==
    /\ applied.fn = NoCall.fn
    /\ store = {}
    /\ applied' = Application("isTimeInPeriod", << time, start, end >>,
                              isTimeInPeriod(time, start, end))
    /\ UNCHANGED << qhVars, nsVars >>

(***************************************************************************)
(* Specifications.                                                         *)
(***************************************************************************)
Init ==
    /\ store = {}
    /\ nextId = 0
    /\ qh = [c \in Callers |-> IdleCall]
    /\ clock = ClockStart
    /\ notificationQueue = << >>
    /\ heap = [a \in ArrIds |-> << >>]
    /\ snd = [s \in Senders |-> IdleSend]
    /\ swp = [w \in Sweepers |-> IdleSweep]
    /\ sch = IdleSched
    /\ ret = NoReturn
    /\ nextMsg = 0
    /\ delivered = {}
    /\ expired = {}
    /\ applied = NoCall

\* QuietHoursService under concurrent callers
NextQH == \E c \in Callers : QHStep(c)

SpecQH == Init /\ [][NextQH]_vars

\* QuietHoursService with one call at a time
NextSerial == QHStep("a")

SpecSerial == Init /\ [][NextSerial]_vars

NSAtRest ==
    /\ \A s \in Senders : snd[s].pc = "idle"
    /\ \A w \in Sweepers : swp[w].pc = "idle"
    /\ sch.pc = "idle"

QHAtRest == \A c \in Callers : ~InFlight(c)

\* NotificationService under concurrent callers.  Between the notification
\* calls "u1", then "u2", sets up the window 22:00-07:00: a window call
\* starts when no notification call is in flight, and the other way round.
Next ==
    \/ \E u \in Users :
         /\ NSAtRest
         /\ u = "u2" => \E r \in store : r.userId = "u1"
         /\ CreateCall("a", u, In(Text(22, 0), Text(7, 0)))
    \/ NSAtRest /\ CreateSave("a")
    \/ \E s \in Senders, p \in Payloads(clock) : QHAtRest /\ SendCall(s, p)
    \/ \E s \in Senders : SendQueue(s)
    \/ \E s \in Senders : SendDeliver(s)
    \/ \E s \in Senders, success \in BOOLEAN : SendDelivered(s, success)
    \/ \E w \in OnDemand, u \in Users : QHAtRest /\ SweepCall(w, u)
    \/ \E w \in Sweepers, success \in BOOLEAN : SweepDelivered(w, success)
    \/ QHAtRest /\ SchedCall
    \/ SchedRead
    \/ SchedSweep
    \/ SchedSkip
    \/ SchedResume
    \/ \E g \in Readers, u \in Users :
         QHAtRest /\ NSAtRest /\ GetQueuedNotifications(g, u)
    \/ Tick

Spec == Init /\ [][Next]_vars

\* a step of the scheduler: the start of a pass or the next step of the pass
\* that runs, the steps of its call of deliverQueuedNotifications included
Scheduler ==
    \/ QHAtRest /\ SchedCall
    \/ SchedRead
    \/ SchedSweep
    \/ SchedSkip
    \/ SchedResume
    \/ \E success \in BOOLEAN : SweepDelivered("sched", success)

\* the scheduler keeps being run and its awaits resolve, a delivery that is
\* tried again and again eventually succeeds, and a save resolves
Fairness ==
    /\ WF_vars(Scheduler)
    /\ SF_vars(SweepDelivered("sched", TRUE))
    /\ WF_vars(NSAtRest /\ CreateSave("a"))

\* the subjects calls are made for in NextLive
LiveUsers == {"u1"}

\* NotificationService with one subject: the calls of Next made for "u1",
\* with the payloads submitted at the first instant, while "u1" is quiet:
\* they are queued, at once or later, and time goes on to after "u1"'s quiet
\* hours
NextLive ==
    \/ \E u \in LiveUsers : NSAtRest /\ CreateCall("a", u, In(Text(22, 0), Text(7, 0)))
    \/ NSAtRest /\ CreateSave("a")
    \/ \E s \in Senders, p \in Payloads(clock) :
         /\ QHAtRest
         /\ p.userId \in LiveUsers /\ \E r \in store : r.userId = p.userId
         /\ clock = ClockStart
         /\ SendCall(s, p)
    \/ \E s \in Senders : SendQueue(s)
    \/ \E w \in OnDemand, u \in LiveUsers : QHAtRest /\ SweepCall(w, u)
    \/ \E w \in Sweepers, success \in BOOLEAN : SweepDelivered(w, success)
    \/ QHAtRest /\ SchedCall
    \/ SchedRead
    \/ SchedSweep
    \/ SchedSkip
    \/ SchedResume
    \/ Tick

SpecLive == Init /\ [][NextLive]_vars /\ Fairness

\* the functions applied to arguments, over the tables Stores
InitFn ==
    /\ store \in Stores
    /\ nextId = Len(Windows) + 1
    /\ qh = [c \in Callers |-> IdleCall]
    /\ clock = ClockStart
    /\ notificationQueue = << >>
    /\ heap = [a \in ArrIds |-> << >>]
    /\ snd = [s \in Senders |-> IdleSend]
    /\ swp = [w \in Sweepers |-> IdleSweep]
    /\ sch = IdleSched
    /\ ret = NoReturn
    /\ nextMsg = 0
    /\ delivered = {}
    /\ expired = {}
    /\ applied = NoCall

NextFn ==
    /\ applied.fn = NoCall.fn
    /\ \/ \E u \in Users, date \in Instants : IsWithinQuietHours(u, date)
       \/ \E u \in Users, input \in FormInputs, editingId \in 0 .. Len(Windows) :
            ValidateQuietHourInput(u, input, editingId)
       \/ /\ store = {}
          /\ \/ \E s1, e1, s2, e2 \in Minutes : PeriodsOverlap(s1, e1, s2, e2)
             \/ \E time \in Times, start, end \in Times :
                  IsTimeInPeriod(time, start, end)
             \/ \E startTime \in TimeTexts, endTime \in OtherTexts :
                  TimeToMinutes(startTime, endTime)

SpecFn == InitFn /\ [][NextFn]_vars

\* NotificationService with one call at a time: a call starts when no other
\* call is in flight
NextSeq ==
    \/ \E u \in Users :
         /\ NSAtRest
         /\ u = "u2" => \E r \in store : r.userId = "u1"
         /\ CreateCall("a", u, In(Text(22, 0), Text(7, 0)))
    \/ NSAtRest /\ CreateSave("a")
    \/ \E s \in Senders, p \in Payloads(clock) : QHAtRest /\ NSAtRest /\ SendCall(s, p)
    \/ \E s \in Senders : SendQueue(s)
    \/ \E s \in Senders : SendDeliver(s)
    \/ \E s \in Senders, success \in BOOLEAN : SendDelivered(s, success)
    \/ \E w \in OnDemand, u \in Users : QHAtRest /\ NSAtRest /\ SweepCall(w, u)
    \/ \E w \in Sweepers, success \in BOOLEAN : SweepDelivered(w, success)
    \/ QHAtRest /\ NSAtRest /\ SchedCall
    \/ SchedRead
    \/ SchedSweep
    \/ SchedSkip
    \/ SchedResume
    \/ \E g \in Readers, u \in Users :
         QHAtRest /\ NSAtRest /\ GetQueuedNotifications(g, u)
    \/ Tick

SpecSeq == Init /\ [][NextSeq]_vars

(***************************************************************************)
(* Properties of the stored quiet hours.                                   *)
(***************************************************************************)
\* the texts HH:mm of the 24-hour clock
IsClockText(t) ==
    /\ Len(t) = 5
    /\ \E hh \in 0 .. 23 : SubSeq(t, 1, 3) = SubSeq(Text(hh, 0), 1, 3)
    /\ \E mm \in 0 .. 59 : SubSeq(t, 4, 5) = SubSeq(Text(0, mm), 4, 5)

\* two stored periods share a minute of the day
RowsOverlap(r1, r2) ==
    periodsOverlap(timeToMinutes(r1.startTime), timeToMinutes(r1.endTime),
                   timeToMinutes(r2.startTime), timeToMinutes(r2.endTime))

NoOverlapIn(rows) ==
    \A r1, r2 \in rows :
        (r1.id # r2.id /\ r1.userId = r2.userId) => ~RowsOverlap(r1, r2)

\* C1: when creates, updates and deletes run one after the other, no two
\* distinct windows stored for one subject ever overlap.
C1_NoOverlapSerial == NoOverlapIn(store)

\* two windows of one subject are stored and an update of one of them has
\* been committed
C1_Witness ==
    /\ \E r1, r2 \in store : r1.id # r2.id /\ r1.userId = r2.userId
    /\ qh["a"].pc = "done" /\ qh["a"].op = "update" /\ qh["a"].result = Ok

\* C8: with writers running concurrently, the overlap check and the write
\* of a create or update act as one step per subject, so that calls whose
\* windows overlap never both commit: every subject's stored windows stay
\* free of overlap.
C8_NoOverlapConcurrent ==
    \A u \in Users : NoOverlapIn({ r \in store : r.userId = u })

\* what a create or an update of period id of userId (0: a create) with
\* input must be refused for, given the rows stored
Refusal(userId, id, input) ==
    IF ~IsClockText(input.startTime) \/ ~IsClockText(input.endTime)
        \/ input.startTime = input.endTime
    THEN "ValidationError"
    ELSE IF id # 0 /\ ~\E r \in store : r.id = id /\ r.userId = userId
    THEN "NotFoundError"
    ELSE IF \E r \in store : /\ r.userId = userId /\ r.id # id
                             /\ RowsOverlap([r EXCEPT !.startTime = input.startTime,
                                                      !.endTime = input.endTime], r)
    THEN "ValidationError"
    ELSE "none"

\* the step is the first one of a call op by c
Starts(c, op) == ~InFlight(c) /\ qh'[c] # qh[c] /\ qh'[c].op = op

\* the step ends call c with the error named, and writes nothing
Fails(c, name) ==
    /\ qh'[c].pc = "done" /\ ErrorName(qh'[c].result) = name
    /\ store' = store

\* C9: a create or update that must be refused ends with the validation or
\* not-found error at its caller; a call that ends with an error leaves the
\* stored windows as they were, and only the last step of a call that
\* succeeds writes.
C9_FailedCallWritesNothing ==
    [][/\ \A c \in Callers, u \in Users, i \in Inputs :
            (Starts(c, "create") /\ CreateCall(c, u, i) /\ Refusal(u, 0, i) # "none")
                => Fails(c, Refusal(u, 0, i))
       /\ \A c \in Callers, u \in Editors, id \in CallIds, i \in Inputs :
            (Starts(c, "update") /\ UpdateCall(c, u, id, i)
                                /\ Refusal(u, id, i) # "none")
                => Fails(c, Refusal(u, id, i))
       /\ \A c \in Callers :
            (qh'[c] # qh[c] /\ qh'[c].pc = "done" /\ qh'[c].result # Ok)
                => store' = store
       /\ store' # store
            => \E c \in Callers : /\ qh[c].pc \in {"save", "remove"}
                                  /\ qh'[c].pc = "done" /\ qh'[c].result = Ok
      ]_vars

\* with a window stored, an update has been refused for overlap and another
\* call for a period that does not exist
C9_Witness ==
    /\ store # {}
    /\ qh["a"].pc = "done" /\ qh["a"].op = "update" /\ qh["a"].result = ErrOverlap
    /\ qh["b"].pc = "done" /\ qh["b"].result = ErrNotFound

(***************************************************************************)
(* Properties of the notification queue.                                   *)
(***************************************************************************)
\* the subject has a stored window that covers the instant's time of day
QuietAt(u, date) ==
    \E r \in store :
        /\ r.userId = u
        /\ isTimeInPeriod(date % MinutesPerDay, timeToMinutes(r.startTime),
                          timeToMinutes(r.endTime))

\* the deadline is set and strictly earlier than now
PastDeadline(item, now) ==
    item.relevanceExpiresAt # NoDate /\ item.relevanceExpiresAt < now

Messages(q) == { q[k].message : k \in DOMAIN q }

\* the item sweep w awaits the delivery of
Item(w) == heap[swp[w].userQueue][swp[w].idx]

\* the subject's queue after the step
QueueAfter(u) ==
    IF MapGet(notificationQueue', u) = NoArray THEN << >>
    ELSE heap'[MapGet(notificationQueue', u)]

\* the step returns to the caller of by
Returns(by) == ret'.by = by /\ UNCHANGED qhVars

\* the step is one of sweep w: its return, its start or its next attempt
Acts(w) ==
    /\ UNCHANGED qhVars
    /\ \/ ret'.by = w
       \/ /\ swp'[w].pc = "delivering"
          /\ swp[w].pc = "idle" \/ swp'[w].idx > swp[w].idx

\* the sweep w that takes the step: its now, its subject and the array it
\* iterates over
Running(w) ==
    IF swp[w].pc = "delivering"
    THEN [now |-> swp[w].now, userId |-> swp[w].userId, q |-> heap[swp[w].userQueue]]
    ELSE LET u == IF swp'[w].pc = "delivering" THEN swp'[w].userId ELSE ret'.userId
         IN  [now |-> clock, userId |-> u, q |-> QueueOf(u)]

\* C2: a sendNotification that returns normally has done one of two things.
\* Its subject was quiet at the payload's instant, and it has appended the
\* payload to the end of the subject's queue, delivered nothing and returned
\* false; or the subject was not quiet, and it has invoked the delivery
\* once, left the subject's queue as it was and returned true.
C2_SendQueuesOrDelivers ==
    [][\A s \in Senders :
         LET p == snd[s].payload
         IN  /\ (snd[s].pc = "idle" /\ snd'[s].pc = "checked")
                  => snd'[s].isQuiet = QuietAt(snd'[s].payload.userId,
                                               snd'[s].payload.timestamp)
             /\ (snd[s].pc = "checked" /\ snd'[s].pc = "delivering")
                  => /\ ~snd[s].isQuiet
                     /\ QueueAfter(p.userId) = QueueOf(p.userId)
                     /\ delivered' = delivered
             /\ (Returns(s) /\ snd[s].pc # "idle")
                  => \/ /\ ret'.status = RetQueued
                        /\ snd[s].pc = "checked" /\ snd[s].isQuiet
                        /\ QueueAfter(p.userId) = Append(QueueOf(p.userId), Queued(p, clock))
                        /\ delivered' = delivered
                     \/ /\ ret'.status = RetDelivered
                        /\ snd[s].pc = "delivering" /\ ~snd[s].isQuiet
                        /\ QueueAfter(p.userId) = QueueOf(p.userId)
                        /\ delivered' = delivered \cup {p.message}
                     \/ ret'.status = Threw
      ]_vars

\* a send has returned false with its payload queued behind an earlier one
C2_Witness ==
    /\ ret.by \in Senders /\ ret.status = RetQueued
    /\ Len(QueueOf(ret.userId)) = 2
    /\ QueueOf(ret.userId)[2].message = nextMsg

\* C3: a sweep never attempts the delivery of an item whose deadline is set
\* and strictly earlier than the sweep's now; such an item is gone from the
\* queue when the sweep returns and is not counted as delivered; and only
\* such items are dropped as expired.
C3_ExpiredNeverDelivered ==
    [][/\ \A w \in Sweepers :
            Acts(w) =>
              LET sw == Running(w)
              IN  /\ swp'[w].pc = "delivering" => ~PastDeadline(Item(w)', sw.now)
                  /\ (expired' \ expired)
                        \subseteq { sw.q[k].message :
                                      k \in { i \in DOMAIN sw.q : PastDeadline(sw.q[i], sw.now) } }
                  /\ (delivered' \ delivered)
                        \subseteq (IF swp[w].pc = "delivering"
                                   THEN {Item(w).message} \ (expired' \ expired)
                                   ELSE {})
                  /\ ret'.by = w
                        => \A k \in DOMAIN QueueAfter(sw.userId) :
                               ~PastDeadline(QueueAfter(sw.userId)[k], sw.now)
       /\ expired' # expired => \E w \in Sweepers : Acts(w)
      ]_vars

\* a sweep has returned after it delivered one item and dropped another one
\* as expired
C3_Witness ==
    /\ ret.by \in Sweepers /\ ret.count = 1
    /\ Cardinality(expired) = 1 /\ Cardinality(delivered) = 1
    /\ expired \cap delivered = {}
    /\ QueueOf(ret.userId) = << >>

\* C4: a sweep of a subject's queue that runs while the subject is within
\* quiet hours attempts no delivery, whoever started it.
C4_QuietSweepDeliversNothing ==
    \A w \in Sweepers :
        swp[w].pc = "delivering" => ~QuietAt(swp[w].userId, swp[w].now)

\* C5: an item of a subject's queue stays there until it has been delivered
\* or dropped as expired.
C5_NoQueuedItemLost ==
    [][\A u \in Users :
         \A m \in Messages(QueueOf(u)) :
             m \in Messages(QueueAfter(u)) \/ m \in delivered' \/ m \in expired'
      ]_vars

\* the items of r are items of q, in the order they have in q
KeepsOrder(r, q) ==
    /\ \A i \in DOMAIN r : \E k \in DOMAIN q : q[k] = r[i]
    /\ \A i, j \in DOMAIN r :
         i < j => \E k, l \in DOMAIN q : k < l /\ q[k] = r[i] /\ q[l] = r[j]

\* C6: when the delivery of an item fails during a sweep, the item is kept
\* for the subject's queue behind the items kept before it, the sweep goes
\* on with the next item that is not expired, or returns normally when there
\* is none, with the kept items as the subject's queue; a sweep never
\* raises.
C6_FailedItemRetained ==
    [][\A w \in Sweepers :
         /\ ret'.by = w => ret'.status = Resolved
         /\ SweepDelivered(w, FALSE) =>
              LET q == heap[swp[w].userQueue]
                  kept == Append(swp[w].remainingQueue, Item(w))
                  later == IF swp'[w].pc = "delivering" THEN swp'[w].idx
                           ELSE Len(q) + 1
              IN  /\ KeepsOrder(kept, q)
                  /\ later > swp[w].idx
                  /\ \A k \in (swp[w].idx + 1) .. (later - 1) :
                         PastDeadline(q[k], swp[w].now)
                  /\ IF swp'[w].pc = "delivering"
                     THEN /\ swp'[w].remainingQueue = kept
                          /\ Item(w)' = q[later]
                     ELSE /\ ret' = [Return(w, swp[w].userId, Resolved,
                                            swp[w].deliveredCount)
                                       EXCEPT !.kept = Len(kept),
                                              !.after = swp[w].after]
                          /\ QueueAfter(swp[w].userId) = kept
      ]_vars

\* a sweep has kept an item whose delivery failed and awaits the delivery of
\* the item behind it
C6_Witness ==
    \E w \in Sweepers :
        /\ swp[w].pc = "delivering" /\ swp[w].idx = 2
        /\ swp[w].remainingQueue = << heap[swp[w].userQueue][1] >>

\* C7: the queue of a subject is changed by one call at a time: a send does
\* not enqueue between the start and the end of a sweep of the same
\* subject, and two sweeps of one subject are never in flight together.
C7_QueueMutationExclusive ==
    [][/\ \A s \in Senders :
            (Returns(s) /\ snd[s].pc = "checked" /\ ret'.status = RetQueued)
                => \A w \in Sweepers :
                       ~(swp[w].pc = "delivering" /\ swp[w].userId = ret'.userId)
       /\ \A w1, w2 \in Sweepers :
            (w1 # w2 /\ swp'[w1].pc = "delivering" /\ swp'[w2].pc = "delivering")
                => swp'[w1].userId # swp'[w2].userId
      ]_vars

\* payloads are numbered in the order they are submitted; with one sender
\* that is the order in which they are enqueued
InQueuedOrder(q) == \A i, j \in DOMAIN q : i < j => q[i].message < q[j].message

\* C10: a subject's queue holds its items in the order they were enqueued; a
\* sweep attempts deliveries in that order; and the items a sweep keeps stay
\* in that order.
C10_Fifo ==
    [][/\ \A u \in Users : InQueuedOrder(QueueAfter(u))
       /\ \A w \in Sweepers :
            /\ swp'[w].pc = "delivering"
                 => /\ InQueuedOrder(Append(swp'[w].remainingQueue, Item(w)'))
                    /\ InQueuedOrder(heap'[swp'[w].userQueue])
            /\ (swp[w].pc = "delivering" /\ swp'[w].pc = "delivering")
                 => /\ Item(w)'.message >= Item(w).message
                    /\ swp'[w].idx # swp[w].idx
                         => Item(w)'.message > Item(w).message
      ]_vars

\* a sweep has returned with two items kept in the subject's queue
C10_Witness ==
    /\ ret.by \in Sweepers /\ ret.status = Resolved /\ ret.count = 0
    /\ Len(QueueOf(ret.userId)) = 2
    /\ swp[ret.by].pc = "idle"
    /\ \A w \in Sweepers : swp[w].pc = "idle"
    /\ delivered = {} /\ expired = {}

\* C11: the Map never holds a subject with an empty array, and when a sweep
\* returns with no item kept the subject has no entry.
C11_NoEmptyEntry ==
    [][/\ \A i \in DOMAIN notificationQueue' : heap'[notificationQueue'[i][2]] # << >>
       /\ \A w \in Sweepers :
            (Acts(w) /\ ret'.by = w
               /\ (swp[w].pc = "delivering"
                     => /\ swp[w].remainingQueue = << >>
                        /\ ret'.count = swp[w].deliveredCount + 1))
                => MapIndex(notificationQueue', ret'.userId) = 0
      ]_vars

\* a sweep has delivered the only item of a subject and returned, and the
\* subject has no entry while another subject has one
C11_Witness ==
    /\ ret.by \in Sweepers /\ ret.count = 1 /\ delivered # {}
    /\ MapIndex(notificationQueue, ret.userId) = 0
    /\ Len(notificationQueue) = 1

\* what the sweep w that takes the step followed
After(w) ==
    IF swp[w].pc = "delivering" THEN swp[w].after
    ELSE IF swp'[w].pc = "delivering" THEN swp'[w].after
    ELSE ret'.after

\* C12 as stated: with calls made one at a time, a sweep of a subject that is
\* not quiet, called right after another sweep of that subject has returned,
\* delivers nothing.
C12_SecondSweepDeliversNothing ==
    [][\A w \in Sweepers :
         (Acts(w) /\ ret'.by = w /\ After(w) >= 0
            /\ ~QuietAt(Running(w).userId, Running(w).now))
             => ret'.count = 0
      ]_vars

\* C12: with calls made one at a time, a sweep of a subject that is not
\* quiet, called right after another sweep of that subject has returned,
\* delivers at most the items the first sweep kept because their delivery
\* failed: nothing when the first sweep kept nothing.
C12_SecondSweepRetriesKept ==
    [][\A w \in Sweepers :
         (Acts(w) /\ ret'.by = w /\ After(w) >= 0
            /\ ~QuietAt(Running(w).userId, Running(w).now))
             => ret'.count + ret'.kept <= After(w)
      ]_vars

\* outside quiet hours a sweep called right after a sweep that had delivered
\* the subject's items and kept none has returned 0
C12_Witness ==
    /\ ret.by \in OnDemand /\ ret.after = 0 /\ ret.count = 0
    /\ delivered # {}
    /\ ~QuietAt(ret.userId, clock)
    /\ \E r \in store : r.userId = ret.userId

(***************************************************************************)
(* Properties of the functions.                                            *)
(***************************************************************************)
\* minute t of the day lies in the window that runs from minute s forward
\* to minute e, e excluded, over midnight when e is not after s
Contains(s, e, t) ==
    ((t - s) % MinutesPerDay) < ((e - s) % MinutesPerDay)

\* minutes from midnight of a text HH:mm
MinuteOf(t) ==
    ((t[1] - Ch0) * 10 + (t[2] - Ch0)) * 60 + (t[4] - Ch0) * 10 + (t[5] - Ch0)

\* C13: isWithinQuietHours(user, instant) is true iff one of the user's
\* stored windows contains the instant's minute of the day, whatever the
\* order of the windows; it is false for a user with no window.
C13_IsWithinQuietHours ==
    applied.fn = "isWithinQuietHours"
        => applied.result =
             (\E r \in store :
                 /\ r.userId = applied.args[1]
                 /\ Contains(MinuteOf(r.startTime), MinuteOf(r.endTime),
                             applied.args[2] % MinutesPerDay))

\* the answer is true for an instant after midnight in the overnight window
\* of a user with three windows
C13_Witness ==
    /\ applied.fn = "isWithinQuietHours" /\ applied.result
    /\ applied.args[2] % MinutesPerDay = 6 * 60 + 59
    /\ Cardinality({ r \in store : r.userId = applied.args[1] }) = 3
    /\ \E r \in store : r.userId = applied.args[1] /\ r.startTime = Text(22, 0)
    /\ ~\E r \in store : r.userId = applied.args[1] /\ r.startTime = Text(6, 0)

\* C14: for windows with s1 # e1 and s2 # e2, periodsOverlap(s1, e1, s2, e2)
\* is true iff some minute of the day lies in both windows; windows that
\* only touch do not overlap, a window inside an overnight window does.
C14_PeriodsOverlap ==
    (applied.fn = "periodsOverlap" /\ applied.args[1] # applied.args[2]
                                   /\ applied.args[3] # applied.args[4])
        => applied.result =
             (\E t \in 0 .. (MinutesPerDay - 1) :
                 /\ Contains(applied.args[1], applied.args[2], t)
                 /\ Contains(applied.args[3], applied.args[4], t))

\* 23:00-01:00 overlaps 22:00-07:00
C14_Witness ==
    /\ applied.fn = "periodsOverlap"
    /\ applied.args = << 23 * 60, 60, 22 * 60, 7 * 60 >>
    /\ applied.result

\* the step is one of a sendNotification, a deliverQueuedNotifications or a
\* getQueuedNotifications for subject a
ActsFor(a) ==
    /\ UNCHANGED qhVars
    /\ \/ \E s \in Senders :
            /\ snd'[s] # snd[s]
            /\ a = IF snd[s].pc = "idle" THEN snd'[s].payload.userId
                   ELSE snd[s].payload.userId
       \/ \E w \in Sweepers : Acts(w) /\ Running(w).userId = a
       \/ ret'.by \in Readers /\ ret'.userId = a

\* C15: a step of sendNotification, deliverQueuedNotifications or
\* getQueuedNotifications for subject a leaves the queue of every other
\* subject b as it was: the same items in the same order, and the entry
\* present or absent as before.
C15_OtherQueuesUntouched ==
    [][\A a \in Users : ActsFor(a) =>
          \A b \in Users \ {a} :
              /\ QueueAfter(b) = QueueOf(b)
              /\ (MapIndex(notificationQueue', b) = 0) = (MapIndex(notificationQueue, b) = 0)
      ]_vars

\* a sweep has delivered an item of its subject and deleted the subject's
\* entry while another subject has an item queued
C15_Witness ==
    /\ ret.by \in Sweepers /\ ret.count > 0
    /\ MapIndex(notificationQueue, ret.userId) = 0
    /\ \E b \in Users \ {ret.userId} : Len(QueueOf(b)) > 0

\* period id is not one of userId's stored periods
Absent(userId, id) == ~\E r \in store : r.userId = userId /\ r.id = id

\* the step is the one in which call op of c looks for its period: the
\* service's findByUserId or the repository's findOneBy
LooksUp(c, op) ==
    \/ Starts(c, op)
    \/ qh[c].pc = "findOne" /\ qh[c].op = op /\ qh'[c] # qh[c]

\* C16: an updateQuietHour or a deleteQuietHour whose id is not one of the
\* calling user's stored periods, be it the id of another user's period,
\* fails with NotFoundError and changes no stored period.
C16_AbsentIdNotFound ==
    [][\A c \in Callers, op \in {"update", "delete"} :
          (LooksUp(c, op) /\ Absent(qh'[c].userId, qh'[c].id))
              => Fails(c, "NotFoundError") ]_vars

\* C16 as the code has it: updateQuietHour checks its input before it looks
\* for the period, so with an input validateTimeFormat rejects it fails with
\* that ValidationError; in every other case the call fails with
\* NotFoundError; no stored period changes.
C16_AbsentIdRefused ==
    [][\A c \in Callers, op \in {"update", "delete"} :
          (LooksUp(c, op) /\ Absent(qh'[c].userId, qh'[c].id))
              => /\ qh'[c].pc = "done"
                 /\ store' = store
                 /\ \/ qh'[c].result = ErrNotFound
                    \/ /\ op = "update" /\ Starts(c, op)
                       /\ qh'[c].result \in {ErrFormat, ErrSame}
                       /\ \E u \in Editors, id \in CallIds, i \in Inputs :
                            /\ UpdateCall(c, u, id, i)
                            /\ validateTimeFormat(i.startTime, i.endTime)
                                 = qh'[c].result ]_vars

\* an update has failed with NotFoundError for the id of a period stored for
\* another user
C16_Witness ==
    /\ qh["a"].pc = "done" /\ qh["a"].op = "update" /\ qh["a"].result = ErrNotFound
    /\ \E r \in store : r.id = qh["a"].id /\ r.userId # qh["a"].userId
    /\ \A r \in store : r.userId # qh["a"].userId
    /\ nextId = MaxIds /\ Cardinality(store) = MaxIds

\* C17: when the subject is not quiet and the delivery fails, the failure
\* reaches the caller of sendNotification, which returns neither true nor
\* false, and the payload is not queued: every queue is as it was.
C17_FailedSendThrows ==
    [][\A s \in Senders :
          (/\ snd[s].pc = "delivering" /\ ~snd[s].isQuiet
           /\ snd'[s] # snd[s]
           /\ snd[s].payload.message \notin delivered')
              => /\ ret'.by = s /\ ret'.userId = snd[s].payload.userId
                 /\ ret'.status = Threw
                 /\ ret'.status \notin {RetDelivered, RetQueued}
                 /\ \A u \in Users :
                      /\ QueueAfter(u) = QueueOf(u)
                      /\ snd[s].payload.message \notin Messages(QueueAfter(u)) ]_vars

\* a send has thrown while its subject, not quiet, has an item queued
C17_Witness ==
    /\ ret.by \in Senders /\ ret.status = Threw
    /\ ~QuietAt(ret.userId, clock)
    /\ Len(QueueOf(ret.userId)) > 0

\* C18: if subject u stays outside its quiet hours from some time on, every
\* item of u's queue is eventually delivered or dropped as expired, and u's
\* queue is eventually empty for good.
C18_QueueFlushed ==
    \A u \in LiveUsers :
        (<>[](~QuietAt(u, clock)))
            => /\ \A m \in Msgs :
                    (m \in Messages(QueueOf(u))) ~> (m \in delivered \/ m \in expired)
               /\ <>[](QueueOf(u) = << >>)

\* C19: a pass of processAllQueuedNotifications computes the quietness of
\* each subject it visits from the windows stored at that moment, calls
\* deliverQueuedNotifications for each subject it visits, the quiet ones
\* included, and ends only when its iterator has passed every entry of the
\* Map, also after an entry was deleted during the pass.
C19_PassSweepsEverySubject ==
    [][/\ (sch.pc = "read" /\ sch'.pc = "checked")
            => sch'.isQuiet = QuietAt(sch.userId, sch.now)
       /\ (sch.pc = "checked" /\ sch'.pc # "checked")
            => /\ sch'.pc = "sweeping"
               /\ Acts("sched") /\ Running("sched").userId = sch.userId
       /\ (sch.pc \in {"checked", "sweeping"} /\ sch'.pc = "idle")
            => sch.idx = Len(notificationQueue)
      ]_vars

\* C20: when a pass of processAllQueuedNotifications ends, no queue holds an
\* item whose deadline is set and earlier than the instant at which the pass
\* was called, whether or not the item's subject was quiet during the pass.
C20_PassDropsExpired ==
    [][(sch.pc \in {"checked", "sweeping"} /\ sch'.pc = "idle")
          => \A u \in Users :
                \A k \in DOMAIN QueueAfter(u) : ~PastDeadline(QueueAfter(u)[k], sch.start)
      ]_vars

\* C21: a createQuietHour or an updateQuietHour whose input has startTime
\* equal to endTime is rejected with the ValidationError of
\* validateTimeFormat, whatever periods are stored and whether or not the
\* period to update exists: the check comes before the stored periods are
\* looked at.  No stored period has startTime equal to endTime.
C21_SameStartEndRejected ==
    [][/\ \A r \in store' : r.startTime # r.endTime
       /\ \A c \in Callers, u \in Users, i \in Inputs :
            (Starts(c, "create") /\ i.startTime = i.endTime /\ CreateCall(c, u, i))
                => /\ Fails(c, "ValidationError")
                   /\ qh'[c].result = IF IsClockText(i.startTime) THEN ErrSame
                                       ELSE ErrFormat
       /\ \A c \in Callers, u \in Editors, id \in CallIds, i \in Inputs :
            (Starts(c, "update") /\ i.startTime = i.endTime /\ UpdateCall(c, u, id, i))
                => /\ Fails(c, "ValidationError")
                   /\ qh'[c].result = IF IsClockText(i.startTime) THEN ErrSame
                                       ELSE ErrFormat
      ]_vars

\* an update has been rejected for equal start and end while its user has
\* periods stored, none of them the one it named
C21_Witness ==
    /\ qh["a"].pc = "done" /\ qh["a"].op = "update" /\ qh["a"].result = ErrSame
    /\ \E r \in store : r.userId = qh["a"].userId
    /\ Absent(qh["a"].userId, qh["a"].id)
    /\ nextId = MaxIds

\* C22: getQueuedNotifications changes nothing: the Map and every array are
\* after the call what they were before it, a subject without an entry has
\* none afterwards, and the call returns the subject's items in the order
\* they have in the queue, no items for a subject without an entry.
C22_GetChangesNothing ==
    [][(ret'.by \in Readers /\ UNCHANGED qhVars)
          => /\ notificationQueue' = notificationQueue /\ heap' = heap
             /\ UNCHANGED << snd, swp, sch, delivered, expired >>
             /\ \A u \in Users :
                  (MapIndex(notificationQueue', u) = 0) = (MapIndex(notificationQueue, u) = 0)
             /\ ret'.status = RetArray
             /\ ret'.items = QueueOf(ret'.userId)
      ]_vars

\* the call has returned two items in queued order while the other subject
\* has no entry
C22_Witness ==
    /\ ret.by \in Readers /\ Len(ret.items) = 2
    /\ ret.items[1].message < ret.items[2].message
    /\ ret.items = QueueOf(ret.userId)
    /\ \E u \in Users : MapIndex(notificationQueue, u) = 0

\* C23: a sweep attempts only the items its subject's queue held when it was
\* called, each once, so it makes at most that many attempts; an item queued
\* for the subject after the call is not attempted by the sweep and is in
\* the subject's queue when the sweep returns.
C23_SweepTakesItemsAtCall ==
    [][\A w \in Sweepers :
          /\ swp'[w].pc = "delivering"
               => /\ swp'[w].idx <= swp'[w].size
                  /\ swp[w].pc = "delivering" => swp'[w].idx >= swp[w].idx
          /\ (swp[w].pc = "delivering" /\ Acts(w) /\ ret'.by = w)
               => \A k \in DOMAIN heap[swp[w].userQueue] :
                     k > swp[w].size
                        => heap[swp[w].userQueue][k].message
                             \in Messages(QueueAfter(swp[w].userId))
      ]_vars

\* C24: isTimeInPeriod(t, s, e) is t in [s, e) when s < e and t >= s or
\* t < e when e < s, which is to say that walking forward from s round the
\* day one comes to t before e; with s equal to e it returns true for
\* every t.
C24_IsTimeInPeriod ==
    applied.fn = "isTimeInPeriod"
        => LET t == applied.args[1]
               s == applied.args[2]
               e == applied.args[3]
           IN  /\ s < e => applied.result = (s <= t /\ t < e)
               /\ e < s => applied.result = (t >= s \/ t < e)
               /\ s # e => applied.result = Contains(s, e, t)
               /\ s = e => applied.result

\* 23:59 lies in the period 22:00-07:00
C24_Witness ==
    /\ applied.fn = "isTimeInPeriod"
    /\ applied.args = << 23 * 60 + 59, 22 * 60, 7 * 60 >>
    /\ applied.result

\* C25: whenever isTimeInPeriod(t, s, e) is true, periodsOverlap of the
\* window (s, e) with the one-minute window (t, t + 1) is true as well, the
\* last minute of the day, whose window ends at 1440, included.
C25_InstantInPeriodOverlaps ==
    (applied.fn = "isTimeInPeriod" /\ applied.result)
        => LET t == applied.args[1]
               s == applied.args[2]
               e == applied.args[3]
           IN  periodsOverlap(s, e, t, t + 1)

\* 23:59 lies in the period 22:00-07:00, so the window compared is 23:59-24:00
C25_Witness ==
    /\ applied.fn = "isTimeInPeriod"
    /\ applied.args[1] = 23 * 60 + 59
    /\ applied.args[2] > applied.args[3]
    /\ applied.args[3] > 0
    /\ applied.result
    /\ periodsOverlap(applied.args[2], applied.args[3], 23 * 60 + 59, 24 * 60)

\* C26: a window whose start and end differ overlaps itself.
C26_OverlapsItself ==
    (/\ applied.fn = "periodsOverlap"
     /\ applied.args[1] = applied.args[3]
     /\ applied.args[2] = applied.args[4]
     /\ applied.args[1] # applied.args[2])
        => applied.result

\* 22:00-07:00 compared with itself
C26_Witness ==
    /\ applied.fn = "periodsOverlap"
    /\ applied.args = << 22 * 60, 7 * 60, 22 * 60, 7 * 60 >>
    /\ applied.result

\* the window the input asks for, as a row of the subject
Asked(u, i) == Row(0, u, i)

\* C27: periodsOverlap gives the same answer with its two windows exchanged;
\* so a create of a well-formed window is refused for overlap exactly when a
\* stored window of the subject, taken as the first argument, overlaps it:
\* of two windows that do not overlap both are created whichever comes
\* first, and of two that overlap the second is refused whichever comes first.
C27_OverlapSymmetric ==
    [][/\ \A s1, e1, s2, e2 \in Minutes :
            periodsOverlap(s1, e1, s2, e2) = periodsOverlap(s2, e2, s1, e1)
       /\ \A c \in Callers, u \in Users, i \in Inputs :
            (/\ Starts(c, "create") /\ CreateCall(c, u, i)
             /\ IsClockText(i.startTime) /\ IsClockText(i.endTime)
             /\ i.startTime # i.endTime)
                => /\ \A r \in store :
                        r.userId = u => RowsOverlap(Asked(u, i), r) = RowsOverlap(r, Asked(u, i))
                   /\ IF \E r \in store : r.userId = u /\ RowsOverlap(r, Asked(u, i))
                      THEN qh'[c].pc = "done" /\ qh'[c].result = ErrOverlap
                      ELSE qh'[c].pc = "save"
      ]_vars

\* 07:00-08:00 was created first and the create of 22:00-07:00 after it has
\* succeeded
C27_Witness ==
    /\ store = { Row(1, "u1", In(Text(7, 0), Text(8, 0))),
                 Row(2, "u1", In(Text(22, 0), Text(7, 0))) }
    /\ qh["a"].pc = "done" /\ qh["a"].op = "create" /\ qh["a"].result = Ok

\* C28: an update with a well-formed input for a window of the subject is
\* compared with every stored window of the subject but the one updated: it
\* is refused for overlap when the new range overlaps another window, and
\* otherwise goes on to write, also when the new range overlaps the range
\* the window had; with one call at a time it then succeeds.
C28_UpdateSkipsOwnRange ==
    [][/\ \A c \in Callers, u \in Editors, id \in CallIds, i \in Inputs :
            (/\ Starts(c, "update") /\ UpdateCall(c, u, id, i)
             /\ IsClockText(i.startTime) /\ IsClockText(i.endTime)
             /\ i.startTime # i.endTime
             /\ \E r \in store : r.id = id /\ r.userId = u)
                => IF \E r \in store : /\ r.userId = u /\ r.id # id
                                       /\ RowsOverlap(Asked(u, i), r)
                   THEN Fails(c, "ValidationError") /\ qh'[c].result = ErrOverlap
                   ELSE qh'[c].pc = "findOne"
       /\ \A c \in Callers :
            (qh[c].op = "update" /\ qh[c].pc = "findOne") => qh'[c].pc = "save"
       /\ \A c \in Callers :
            (qh[c].op = "update" /\ qh[c].pc = "save")
                => /\ qh'[c].pc = "done" /\ qh'[c].result = Ok
                   /\ store' = (store \ { r \in store : r.id = qh[c].id })
                                 \cup { Row(qh[c].id, qh[c].userId, qh[c].input) }
      ]_vars

\* with 22:00-07:00 stored as well, the window 07:00-08:00 is about to be
\* written over by an update to the same range
C28_Witness ==
    \E id \in Ids :
        /\ qh["a"].op = "update" /\ qh["a"].pc = "save" /\ qh["a"].id = id
        /\ qh["a"].input = In(Text(7, 0), Text(8, 0))
        /\ Row(id, "u1", In(Text(7, 0), Text(8, 0))) \in store
        /\ \E r \in store : r.id # id /\ r.userId = "u1"

\* the items of the queue the sweep was called on that it drops as expired
Dropped(w) ==
    { k \in DOMAIN Running(w).q : PastDeadline(Running(w).q[k], Running(w).now) }

\* the sweep w that returns in the step has delivered, dropped as expired or
\* left in the subject's queue every item the queue held when it was called
Accounts(w) ==
    Len(Running(w).q) = ret'.count + Cardinality(Dropped(w))
                          + Len(QueueAfter(Running(w).userId))

\* the counts a caller reads from what a sweep returns, a number: the
\* delivered count
Reported(r) == [delivered |-> r.count]

\* C29: with one call at a time, the items in the subject's queue when a
\* sweep is called are as many as the delivered count it returns, the items
\* it drops as expired and the items it leaves in the queue together; and
\* what it returns tells the caller how many items it has retained after a
\* failed delivery, as well as how many it has delivered.
C29_SweepAccountsForItems ==
    [][\A w \in Sweepers :
         (Acts(w) /\ ret'.by = w)
             => /\ Accounts(w)
                /\ Reported(ret').delivered = ret'.count
                /\ ret'.kept > 0
                     => /\ "remaining" \in DOMAIN Reported(ret')
                        /\ Reported(ret').remaining = ret'.kept
      ]_vars

\* the step is a successful delivery by sweep w of the item it awaited
Delivers(w) ==
    /\ swp[w].pc = "delivering"
    /\ UNCHANGED qhVars
    /\ \/ swp'[w].pc = "delivering" /\ swp'[w].deliveredCount = swp[w].deliveredCount + 1
       \/ ret'.by = w /\ ret'.count = swp[w].deliveredCount + 1

\* C30: a sweep, of the scheduler or on demand, never delivers with success
\* an item that a delivery has succeeded for before.
C30_DeliveredOnce ==
    [][\A w \in Sweepers : Delivers(w) => Item(w).message \notin delivered]_vars

(***************************************************************************)
(* The form's validation and the service's.                                 *)
(***************************************************************************)
\* what the service answers to the input: the message of validateTimeFormat,
\* or else of the overlap found by hasOverlap, or Ok
Rejection(input, existing, editingId) ==
    IF validateTimeFormat(input.startTime, input.endTime) # Ok
    THEN validateTimeFormat(input.startTime, input.endTime)
    ELSE IF hasOverlap(input, existing, editingId) THEN ErrOverlap
    ELSE Ok

\* C31: for an input, the periods of a subject in any order and an editing
\* id or none, validateQuietHourInput returns an error exactly when
\* validateTimeFormat followed by hasOverlap rejects the input against the
\* same periods, and then the error of the same kind: format, same start and
\* end, or overlap.
C31_FormAgreesWithService ==
    applied.fn = "validateQuietHourInput"
        => LET rejection == Rejection(applied.args[1], applied.args[2], applied.args[3])
           IN  /\ (applied.result = Null) = (rejection = Ok)
               /\ applied.result # Null => applied.result = rejection

\* with 22:00-07:00 stored under id 1 and 12:00-13:30 under id 4, the form
\* has accepted 06:00-08:00 for the period 1 being edited
C31_Witness ==
    /\ applied.fn = "validateQuietHourInput"
    /\ applied.args[1] = In(Text(6, 0), Text(8, 0))
    /\ applied.args[3] = 1
    /\ \E k \in DOMAIN applied.args[2] : applied.args[2][k].id = 1
    /\ \E k \in DOMAIN applied.args[2] : applied.args[2][k].id = 4
    /\ applied.result = Null

\* C32: for two texts that validateTimeFormat accepts as HH:mm,
\* timeToMinutes gives the hour times 60 plus the minute, from 0 to 1439; the
\* texts are equal exactly when their minute counts are, and one text comes
\* before the other in the order of texts exactly when its minute count is
\* the smaller; so validateTimeFormat refuses for equal start and end exactly
\* the inputs whose start and end are the same minute, and the order of the
\* stored texts is the order of the start times.
C32_TimeToMinutes ==
    (/\ applied.fn = "timeToMinutes"
     /\ validateTimeFormat(applied.args[1], applied.args[2]) # ErrFormat)
        => LET a == applied.args[1]
               b == applied.args[2]
           IN  /\ applied.result = << MinuteOf(a), MinuteOf(b) >>
               /\ applied.result[1] \in 0 .. (MinutesPerDay - 1)
               /\ applied.result[2] \in 0 .. (MinutesPerDay - 1)
               /\ (a = b) = (applied.result[1] = applied.result[2])
               /\ TextLeq(a, b) = (applied.result[1] <= applied.result[2])
               /\ (validateTimeFormat(a, b) = ErrSame)
                     = (applied.result[1] = applied.result[2])

\* 09:59 and 10:00 are a minute apart
C32_Witness ==
    /\ applied.fn = "timeToMinutes"
    /\ applied.args = << Text(9, 59), Text(10, 0) >>
    /\ applied.result = << 599, 600 >>

(***************************************************************************)
(* Sweeps of a subject without items.                                       *)
(***************************************************************************)
\* C33: a sweep called for a subject that has no queued items returns 0 at
\* once: it awaits no delivery, drops nothing, and leaves the Map, with no
\* entry made for the subject, and every array as they were.
C33_EmptySweepIsNoOp ==
    [][\A w \in Sweepers :
         (swp[w].pc = "idle" /\ Acts(w) /\ QueueOf(Running(w).userId) = << >>)
             => /\ ret'.by = w /\ ret'.status = Resolved /\ ret'.count = 0
                /\ swp'[w].pc = "idle"
                /\ notificationQueue' = notificationQueue /\ heap' = heap
                /\ MapIndex(notificationQueue', ret'.userId) = 0
                /\ delivered' = delivered /\ expired' = expired
      ]_vars

\* a sweep of a subject without items has returned 0 while the other
\* subject's item is still queued, nothing delivered and nothing dropped
C33_Witness ==
    /\ ret.by \in Sweepers /\ ret.status = Resolved /\ ret.count = 0 /\ ret.kept = 0
    /\ MapIndex(notificationQueue, ret.userId) = 0
    /\ Len(notificationQueue) = 1
    /\ delivered = {} /\ expired = {}

====
